---- MODULE Spec2Model ----
(***************************************************************************)
(* A model of the formula package (kshedden/formula): the lexer, the       *)
(* shunting-yard parser and the design-matrix evaluator of a Parser, with  *)
(* the categorical coder.  Strings that the lexer scans are sequences of   *)
(* one-character strings; names and data values are strings.  float64      *)
(* values are integers: the model only multiplies small integers, which    *)
(* float64 represents exactly.                                             *)
(***************************************************************************)
EXTENDS Integers, Sequences, FiniteSets, TLC

VARIABLES
    Formulas,   \* Parser.Formulas: the formula strings
    RawData,    \* Parser.RawData: the data source
    refLevels,  \* Parser.refLevels: variable name -> reference level
    codes,      \* Parser.codes: variable name -> (value -> code)
    facNames,   \* Parser.facNames: variable name -> indicator column names
    rpn,        \* Parser.rpn: one postfix token sequence per formula
    data,       \* Parser.data: the accumulated ColSet
    workData,   \* Parser.workData: name -> ColSet, or Nil
    rawNames,   \* Parser.rawNames: the names of the data source, set by Parse
    names,      \* Parser.names: what Names returns
    calls,      \* the number of Parse calls made on the handle
    pc,         \* where the caller stands: "start", "compiled", "failed", "parsed", "crashed"
    ret         \* what the last call returned to the caller

vars ==
    <<Formulas, RawData, refLevels, codes, facNames, rpn, data, workData,
      rawNames, names, calls, pc, ret>>

(***************************************************************************)
(* Bounds of the model.                                                    *)
(***************************************************************************)
MaxObs == 2        \* observations per variable of a data source
MaxFormulas == 2   \* formulas handed to NewMulti
MaxCalls == 2      \* Parse calls made on one handle
MaxLen == 5        \* characters of a formula drawn from FormulaChars

\* Go's nil: of a map, a pointer, an interface or a slice
Nil == [kind |-> "nil"]

(***************************************************************************)
(* Generic helpers.                                                        *)
(***************************************************************************)
Range(s) == {s[i] : i \in DOMAIN s}

Last(s) == s[Len(s)]

Front(s) == SubSeq(s, 1, Len(s) - 1)

EmptyMap == [x \in {} |-> Nil]

MapPut(m, k, v) == [x \in (DOMAIN m) \cup {k} |-> IF x = k THEN v ELSE m[x]]

(***************************************************************************)
(* Token types (const block, iota) and operator precedence.                *)
(***************************************************************************)
vname == 0
leftp == 1
rightp == 2
times == 3
plus == 4
icept == 5
funct == 6

\* (variant: the two precedence values exchanged)
precedenceExchanged == (times :> 1) @@ (plus :> 0)

precedence == (times :> 0) @@ (plus :> 1)

\* token{}: fields that are not set hold Go's zero values
Tok(sym) == [symbol |-> sym, name |-> "", funcn |-> "", arg |-> ""]

VarTok(na) == [symbol |-> vname, name |-> na, funcn |-> "", arg |-> ""]

(***************************************************************************)
(* Character classes of the lexer.                                         *)
(***************************************************************************)
Letters == {"a", "b", "c", "d", "e", "f", "g", "h", "i", "j", "k", "l", "m",
            "n", "o", "p", "q", "r", "s", "t", "u", "v", "w", "x", "y", "z",
            "A", "B", "C", "D", "E", "F", "G", "H", "I", "J", "K", "L", "M",
            "N", "O", "P", "Q", "R", "S", "T", "U", "V", "W", "X", "Y", "Z"}

Digits == {"0", "1", "2", "3", "4", "5", "6", "7", "8", "9"}

isValidContinuation(r) == r \in Letters \/ r \in Digits \/ r = "_"

(***************************************************************************)
(* lexFuncs: merges  name ( x )  into one function token.  i is the        *)
(* 1-based position of input[i-1] of the source.                           *)
(***************************************************************************)
RECURSIVE lexFuncsFrom(_, _, _)
lexFuncsFrom(input, i, output) ==
    LET m == Len(input) IN
    IF i > m THEN [err |-> "", toks |-> output]
    ELSE IF i + 1 <= m /\ input[i].symbol = vname /\ input[i + 1].symbol = leftp
    THEN IF i + 3 <= m /\ input[i + 3].symbol = rightp
         THEN LET name == input[i].name \o "(" \o input[i + 2].name \o ")"
                  newtok == [symbol |-> funct, name |-> name,
                             funcn |-> input[i].name, arg |-> input[i + 2].name]
              IN lexFuncsFrom(input, i + 4, Append(output, newtok))
         ELSE [err |-> "Malformed function call", toks |-> <<>>]
    ELSE lexFuncsFrom(input, i + 1, Append(output, input[i]))

lexFuncs(input) == lexFuncsFrom(input, 1, <<>>)

(***************************************************************************)
(* lex: a formula (sequence of characters) to tokens.                      *)
(***************************************************************************)
\* the end (exclusive) of the maximal identifier run that starts before j
RECURSIVE nameEnd(_, _)
nameEnd(input, j) ==
    IF j <= Len(input) /\ isValidContinuation(input[j])
    THEN nameEnd(input, j + 1)
    ELSE j

RECURSIVE joinChars(_, _, _)
joinChars(input, i, j) ==
    IF i >= j THEN "" ELSE input[i] \o joinChars(input, i + 1, j)

RECURSIVE lexFrom(_, _, _)
lexFrom(input, i, tokens) ==
    IF i > Len(input) THEN lexFuncs(tokens)
    ELSE LET r == input[i] IN
         CASE r = "(" -> lexFrom(input, i + 1, Append(tokens, Tok(leftp)))
           [] r = ")" -> lexFrom(input, i + 1, Append(tokens, Tok(rightp)))
           [] r = "+" -> lexFrom(input, i + 1, Append(tokens, Tok(plus)))
           [] r = "*" -> lexFrom(input, i + 1, Append(tokens, Tok(times)))
           [] r = "1" -> lexFrom(input, i + 1, Append(tokens, Tok(icept)))
           [] r = " " -> lexFrom(input, i + 1, tokens)
           [] r \in Letters \/ r = "_" ->
                LET j == nameEnd(input, i + 1) IN
                lexFrom(input, j, Append(tokens, VarTok(joinChars(input, i, j))))
           [] OTHER -> [err |-> "Invalid formula, symbol is not known", toks |-> <<>>]

lex(input) == lexFrom(input, 1, <<>>)

(***************************************************************************)
(* parse: infix tokens to reverse Polish notation (shunting-yard).         *)
(***************************************************************************)
isOperator(tok) == tok.symbol = times \/ tok.symbol = plus

\* the inner loop of an operator token: pops operators while
\* precedence[tok] > precedence[last]
RECURSIVE popOperators(_, _, _)
\* an operator token that pops no operator
popOperatorsNone(tok, stack, output) == [stack |-> stack, output |-> output]

popOperators(tok, stack, output) ==
    IF stack = <<>> \/ ~isOperator(Last(stack))
    THEN [stack |-> stack, output |-> output]
    ELSE IF precedence[tok.symbol] > precedence[Last(stack).symbol]
    THEN popOperators(tok, Front(stack), Append(output, Last(stack)))
    ELSE [stack |-> stack, output |-> output]

\* the inner loop of a right parenthesis: pops until a left parenthesis
RECURSIVE popToLeftp(_, _)
popToLeftp(stack, output) ==
    IF stack = <<>> THEN [err |-> "Unbalanced parentheses", stack |-> <<>>, output |-> output]
    ELSE IF Last(stack).symbol = leftp
    THEN [err |-> "", stack |-> Front(stack), output |-> output]
    ELSE popToLeftp(Front(stack), Append(output, Last(stack)))

\* the final loop: empties the stack onto the output
RECURSIVE drainStack(_, _)
\* drainStack without its test for a parenthesis left on the stack
drainStackUnchecked(stack, output) ==
    IF stack = <<>> THEN [err |-> "", toks |-> output]
    ELSE drainStack(Front(stack), Append(output, Last(stack)))

drainStack(stack, output) ==
    IF stack = <<>> THEN [err |-> "", toks |-> output]
    ELSE IF Last(stack).symbol = leftp \/ Last(stack).symbol = rightp
    THEN [err |-> "mismatched parentheses", toks |-> <<>>]
    ELSE drainStack(Front(stack), Append(output, Last(stack)))

RECURSIVE parseFrom(_, _, _, _)
parseFrom(input, i, stack, output) ==
    IF i > Len(input) THEN drainStack(stack, output)
    ELSE LET tok == input[i] IN
         CASE tok.symbol = vname \/ tok.symbol = funct \/ tok.symbol = icept ->
                parseFrom(input, i + 1, stack, Append(output, tok))
           [] isOperator(tok) ->
                LET p == popOperators(tok, stack, output) IN
                parseFrom(input, i + 1, Append(p.stack, tok), p.output)
           [] tok.symbol = leftp ->
                parseFrom(input, i + 1, Append(stack, tok), output)
           [] tok.symbol = rightp ->
                LET p == popToLeftp(stack, output) IN
                IF p.err # "" THEN [err |-> p.err, toks |-> <<>>]
                ELSE parseFrom(input, i + 1, p.stack, p.output)

parse(input) == parseFrom(input, 1, <<>>, <<>>)

(***************************************************************************)
(* DataSource (basicSource): names, and the data of each name.  A value is *)
(* [kind |-> "float64", v |-> <<...>>], [kind |-> "string", v |-> <<...>>] *)
(* or Nil for a name the source does not hold.                             *)
(***************************************************************************)
NewSource(dat, nms) == [names |-> nms, data |-> dat]

Names(b) == b.names

\* colix[c] = k for the last k with names[k] = c
Get(b, col) ==
    LET ks == {k \in DOMAIN b.names : b.names[k] = col} IN
    IF ks = {} THEN Nil
    ELSE b.data[CHOOSE k \in ks : \A j \in ks : j <= k]

Float64s(v) == [kind |-> "float64", v |-> v]

Strings(v) == [kind |-> "string", v |-> v]

(***************************************************************************)
(* The transformations of the registry (makeFuncs).                        *)
(***************************************************************************)
funcs == {"square", "pbase"}

callFunc(fn, na, x) ==
    IF fn = "square"
    THEN [Names |-> <<na>>, Data |-> <<[i \in DOMAIN x |-> x[i] * x[i]]>>]
    ELSE [Names |-> <<na \o "^2", na \o "^3">>,
          Data |-> <<[i \in DOMAIN x |-> x[i] * x[i]],
                     [i \in DOMAIN x |-> x[i] * x[i] * x[i]]>>]

(***************************************************************************)
(* ColSet.                                                                 *)
(***************************************************************************)
NewColSet == [Names |-> <<>>, Data |-> <<>>]

\* Extend: appends the columns of o whose names are not in c; the set of
\* names mp is built from c before the loop and is not updated in it
RECURSIVE ExtendFrom(_, _, _, _)
ExtendFrom(c, o, mp, j) ==
    IF j > Len(o.Names) THEN c
    ELSE IF o.Names[j] \notin mp
    THEN ExtendFrom([Names |-> Append(c.Names, o.Names[j]),
                     Data |-> Append(c.Data, o.Data[j])], o, mp, j + 1)
    ELSE ExtendFrom(c, o, mp, j + 1)

\* (variant: Extend without the test of mp, every column of o is appended)
ExtendAll(c, o) == [Names |-> c.Names \o o.Names, Data |-> c.Data \o o.Data]

Extend(c, o) == ExtendFrom(c, o, Range(c.Names), 1)

(***************************************************************************)
(* Errors.  "" is the nil error; a panic is a string that starts "panic".  *)
(***************************************************************************)
NoErr == ""

PanicNilDeref == "panic: nil pointer dereference"

PanicIndex == "panic: index out of range"

PanicFuncType == "panic: funtions can only be applied to numeric data"

PanicUnknownType == "panic: unknown type"

ErrNotFound == "Variable not found"

ErrNotEnough == "not enough arguments"

ErrInvalid == "invalid formula"

ErrFuncNotFound == "Function not found"

Panics == {PanicNilDeref, PanicIndex, PanicFuncType, PanicUnknownType}

IsPanic(e) == e \in Panics

\* map lookup with Go's zero value for a missing key
Lookup(m, k, zero) == IF k \in DOMAIN m THEN m[k] ELSE zero

(***************************************************************************)
(* setCodes: the codes of the non-reference levels of every string         *)
(* variable of the data source, in first-seen order.                       *)
(***************************************************************************)
\* (variant: the loop of setCodes without the test x == ref)
RECURSIVE setCodesValuesNoRef(_, _, _, _, _)
setCodesValuesNoRef(na, ref, v, i, ct) ==
    IF i > Len(v) THEN ct
    ELSE IF v[i] \in DOMAIN ct.codes THEN setCodesValuesNoRef(na, ref, v, i + 1, ct)
    ELSE setCodesValuesNoRef(na, ref, v, i + 1,
             [codes |-> MapPut(ct.codes, v[i], Cardinality(DOMAIN ct.codes)),
              facNames |-> Append(ct.facNames, na \o "[" \o v[i] \o "]")])

\* the loop over the values v of variable na; ct = [codes, facNames] of na
RECURSIVE setCodesValues(_, _, _, _, _)
setCodesValues(na, ref, v, i, ct) ==
    IF i > Len(v) THEN ct
    ELSE LET x == v[i] IN
         IF x = ref THEN setCodesValues(na, ref, v, i + 1, ct)
         ELSE IF x \in DOMAIN ct.codes THEN setCodesValues(na, ref, v, i + 1, ct)
         ELSE LET fm == na \o "[" \o x \o "]" IN
              setCodesValues(na, ref, v, i + 1,
                  [codes |-> MapPut(ct.codes, x, Cardinality(DOMAIN ct.codes)),
                   facNames |-> Append(ct.facNames, fm)])

\* the loop over RawData.Names(); t = [codes, facNames] of the parser
RECURSIVE setCodesFrom(_, _, _, _)
setCodesFrom(raw, refs, k, t) ==
    IF k > Len(Names(raw)) THEN t
    ELSE LET na == Names(raw)[k]
             v == Get(raw, na)
         IN IF v = Nil THEN t
            ELSE IF v.kind = "string"
            THEN LET ct == setCodesValues(na, Lookup(refs, na, ""), v.v, 1,
                               [codes |-> Lookup(t.codes, na, EmptyMap),
                                facNames |-> Lookup(t.facNames, na, <<>>)])
                 IN setCodesFrom(raw, refs, k + 1,
                        [codes |-> MapPut(t.codes, na, ct.codes),
                         facNames |-> IF ct.facNames = <<>> THEN t.facNames
                                      ELSE MapPut(t.facNames, na, ct.facNames)])
            ELSE setCodesFrom(raw, refs, k + 1, t)

setCodes(raw, refs) == setCodesFrom(raw, refs, 1, [codes |-> EmptyMap, facNames |-> EmptyMap])

(***************************************************************************)
(* The evaluator.  fp is the Parser as a record of the fields evaluation   *)
(* reads and writes; a step returns [fp, err].                             *)
(***************************************************************************)

\* codeStrings: one indicator column per code of na; the column of a value
\* without a code is column 0 (the zero value of the map lookup)
RECURSIVE codeStringsData(_, _, _, _, _)
codeStringsData(cds, ref, s, i, dat) ==
    IF i > Len(s) THEN [err |-> NoErr, dat |-> dat]
    ELSE IF s[i] = ref THEN codeStringsData(cds, ref, s, i + 1, dat)
    ELSE IF Lookup(cds, s[i], 0) + 1 > Len(dat) THEN [err |-> PanicIndex, dat |-> dat]
    ELSE codeStringsData(cds, ref, s, i + 1,
             [dat EXCEPT ![Lookup(cds, s[i], 0) + 1] = [@ EXCEPT ![i] = 1]])

\* the assignment to workData that ends codeStrings; r is the filled dat
codeStringsStore(fp, na, r) ==
    IF r.err # NoErr THEN [fp |-> fp, err |-> r.err]
    ELSE [fp |-> [fp EXCEPT !.workData = MapPut(@, na,
                     [Names |-> Lookup(fp.facNames, na, <<>>), Data |-> r.dat])],
          err |-> NoErr]

codeStringsWith(fp, na, ref, s, cds) ==
    codeStringsStore(fp, na,
        codeStringsData(cds, ref, s, 1,
            [c \in 1..Cardinality(DOMAIN cds) |-> [i \in 1..Len(s) |-> 0]]))

codeStrings(fp, na, ref, s) ==
    codeStringsWith(fp, na, ref, s, Lookup(fp.codes, na, EmptyMap))

\* the type switch of convertColumn on s = RawData.Get(na)
convertColumnOf(fp, na, s) ==
    IF s = Nil THEN [fp |-> fp, err |-> ErrNotFound]
    ELSE IF s.kind = "string"
    THEN codeStrings(fp, na, Lookup(fp.refLevels, na, ""), s.v)
    ELSE [fp |-> [fp EXCEPT !.workData = MapPut(@, na,
                     [Names |-> <<na>>, Data |-> <<s.v>>])],
          err |-> NoErr]

\* convertColumn: the raw column na as a ColSet in workData
convertColumn(fp, na) ==
    IF na \in DOMAIN fp.workData THEN [fp |-> fp, err |-> NoErr]
    ELSE convertColumnOf(fp, na, Get(fp.RawData, na))

\* checkConv: converts the names of v in order, and stops at the first error
RECURSIVE checkConv(_, _)
RECURSIVE checkConvRest(_, _)
checkConvRest(r, v) ==
    IF r.err # NoErr THEN r ELSE checkConv(r.fp, v)

checkConv(fp, v) ==
    IF v = <<>> THEN [fp |-> fp, err |-> NoErr]
    ELSE checkConvRest(convertColumn(fp, Head(v)), Tail(v))

\* (variant: doPlus that forgets the columns of ds2)
plusColSetLeftOnly(ds1, ds2) == [Names |-> ds1.Names, Data |-> ds1.Data]

\* the ColSet that doPlus builds from ds1 and ds2
plusColSet(ds1, ds2) ==
    [Names |-> ds1.Names \o ds2.Names, Data |-> ds1.Data \o ds2.Data]

\* doPlus: the columns of a, then the columns of b
doPlus(fp, a, b) ==
    IF a \notin DOMAIN fp.workData \/ b \notin DOMAIN fp.workData
    THEN [err |-> PanicNilDeref, rslt |-> NewColSet]
    ELSE [err |-> NoErr, rslt |-> plusColSet(fp.workData[a], fp.workData[b])]

\* the k-th pair (j1, j2) of the two loops of doTimes, the loop over the
\* n2 columns of ds2 being the inner one
pairAt(n2, k) == <<((k - 1) \div n2) + 1, ((k - 1) % n2) + 1>>

\* (variant: doTimes with the loop over ds2 as the outer loop)
timesColSetRightMajor(ds1, ds2) ==
    [Names |-> [k \in 1..(Len(ds1.Names) * Len(ds2.Names)) |->
                   ds1.Names[pairAt(Len(ds1.Names), k)[2]] \o ":"
                       \o ds2.Names[pairAt(Len(ds1.Names), k)[1]]],
     Data |-> [k \in 1..(Len(ds1.Names) * Len(ds2.Names)) |->
                   [i \in DOMAIN ds1.Data[pairAt(Len(ds1.Names), k)[2]] |->
                       ds1.Data[pairAt(Len(ds1.Names), k)[2]][i]
                           * ds2.Data[pairAt(Len(ds1.Names), k)[1]][i]]]]

\* the ColSet that doTimes builds from ds1 and ds2
timesColSet(ds1, ds2) ==
    [Names |-> [k \in 1..(Len(ds1.Names) * Len(ds2.Names)) |->
                   ds1.Names[pairAt(Len(ds2.Names), k)[1]] \o ":"
                       \o ds2.Names[pairAt(Len(ds2.Names), k)[2]]],
     Data |-> [k \in 1..(Len(ds1.Names) * Len(ds2.Names)) |->
                   [i \in DOMAIN ds1.Data[pairAt(Len(ds2.Names), k)[1]] |->
                       ds1.Data[pairAt(Len(ds2.Names), k)[1]][i]
                           * ds2.Data[pairAt(Len(ds2.Names), k)[2]][i]]]]

\* x[i] = d1[i] * d2[i] for i < len(d1) is out of range when d2 is shorter
timesOutOfRange(ds1, ds2) ==
    \E j1 \in DOMAIN ds1.Names, j2 \in DOMAIN ds2.Names :
        Len(ds2.Data[j2]) < Len(ds1.Data[j1])

\* doTimes: every product of a column of a with a column of b
doTimes(fp, a, b) ==
    IF a \notin DOMAIN fp.workData \/ b \notin DOMAIN fp.workData
    THEN [err |-> PanicNilDeref, rslt |-> NewColSet]
    ELSE IF timesOutOfRange(fp.workData[a], fp.workData[b])
    THEN [err |-> PanicIndex, rslt |-> NewColSet]
    ELSE [err |-> NoErr, rslt |-> timesColSet(fp.workData[a], fp.workData[b])]

\* the all-ones column of createIcept; x is the data of the first variable
createIceptOf(fp, x) ==
    IF x = Nil THEN [fp |-> fp, err |-> PanicUnknownType, q |-> FALSE]
    ELSE [fp |-> [fp EXCEPT !.workData = MapPut(@, "icept",
                     [Names |-> <<"icept">>, Data |-> <<[i \in 1..Len(x.v) |-> 1]>>])],
          err |-> NoErr, q |-> TRUE]

\* createIcept: [fp, err, q]; q is FALSE when workData already holds icept
createIcept(fp) ==
    IF "icept" \in DOMAIN fp.workData THEN [fp |-> fp, err |-> NoErr, q |-> FALSE]
    ELSE IF Names(fp.RawData) = <<>> THEN [fp |-> fp, err |-> PanicIndex, q |-> FALSE]
    ELSE createIceptOf(fp, Get(fp.RawData, Names(fp.RawData)[1]))

\* runFuncs: the result of every function token of rpn, under its name
RECURSIVE runFuncs(_, _, _)
RECURSIVE runFuncsCall(_, _, _, _)
runFuncsCall(fp, toks, k, x) ==
    IF x # Nil /\ x.kind = "float64"
    THEN runFuncs([fp EXCEPT !.workData = MapPut(@, toks[k].name,
                      callFunc(toks[k].funcn, toks[k].name, x.v))], toks, k + 1)
    ELSE [fp |-> fp, err |-> PanicFuncType]

runFuncs(fp, toks, k) ==
    IF k > Len(toks) THEN [fp |-> fp, err |-> NoErr]
    ELSE IF toks[k].symbol # funct THEN runFuncs(fp, toks, k + 1)
    ELSE IF toks[k].funcn \notin funcs THEN [fp |-> fp, err |-> ErrFuncNotFound]
    ELSE runFuncsCall(fp, toks, k, Get(fp.RawData, toks[k].arg))

\* the end of the operator case of doFormula: op is the result of doPlus or
\* doTimes, nm the name of the temporary, rest the stack without the operands
storeResult(fp, rest, nm, last, op) ==
    IF op.err # NoErr THEN [fp |-> fp, stack |-> rest, err |-> op.err]
    ELSE [fp |-> [fp EXCEPT !.data = IF last THEN Extend(@, op.rslt) ELSE @,
                            !.workData = MapPut(@, nm, op.rslt)],
          stack |-> Append(rest, nm),
          err |-> NoErr]

\* the operator case after checkConv(arg1, arg2) returned cv: its error is
\* dropped, a panic is not
applyOperator(tok, rest, arg1, arg2, nm, last, cv) ==
    IF IsPanic(cv.err) THEN [fp |-> cv.fp, stack |-> rest, err |-> cv.err]
    ELSE storeResult(cv.fp, rest, nm, last,
             IF tok.symbol = plus THEN doPlus(cv.fp, arg1, arg2)
             ELSE doTimes(cv.fp, arg1, arg2))

\* the intercept case: c is the result of createIcept
pushIcept(stack, c) ==
    [fp |-> c.fp, stack |-> IF c.q THEN Append(stack, "icept") ELSE stack, err |-> c.err]

\* the variable case: cv is the result of checkConv, whose error is dropped
pushVar(stack, na, cv) ==
    [fp |-> cv.fp, stack |-> Append(stack, na),
     err |-> IF IsPanic(cv.err) THEN cv.err ELSE NoErr]

\* one token of the loop of doFormula; ix is the 0-based index of tok in
\* toks; returns [fp, stack, err]
doToken(fp, stack, toks, ix) ==
    CASE isOperator(toks[ix + 1]) ->
           IF Len(stack) < 2 THEN [fp |-> fp, stack |-> stack, err |-> ErrNotEnough]
           ELSE applyOperator(toks[ix + 1],
                    SubSeq(stack, 1, Len(stack) - 2),
                    stack[Len(stack) - 1], stack[Len(stack)],
                    "tmp" \o ToString(ix),
                    ix = Len(toks) - 1,
                    checkConv(fp, <<stack[Len(stack) - 1], stack[Len(stack)]>>))
      [] toks[ix + 1].symbol = icept -> pushIcept(stack, createIcept(fp))
      [] toks[ix + 1].symbol = vname ->
           pushVar(stack, toks[ix + 1].name, checkConv(fp, <<toks[ix + 1].name>>))
      [] toks[ix + 1].symbol = funct ->
           [fp |-> fp, stack |-> Append(stack, toks[ix + 1].name), err |-> NoErr]
      [] OTHER -> [fp |-> fp, stack |-> stack, err |-> NoErr]

RECURSIVE doTokens(_, _, _, _)
RECURSIVE doTokensNext(_, _, _)
doTokensNext(r, toks, ix) ==
    IF r.err # NoErr THEN [fp |-> r.fp, err |-> r.err]
    ELSE doTokens(r.fp, r.stack, toks, ix + 1)

doTokens(fp, stack, toks, ix) ==
    IF ix >= Len(toks)
    THEN [fp |-> fp, err |-> IF Len(stack) # 1 THEN ErrInvalid ELSE NoErr]
    ELSE doTokensNext(doToken(fp, stack, toks, ix), toks, ix)

\* the special case of a single term na: cv is the result of checkConv(na)
doSingle(na, cv) ==
    IF cv.err # NoErr THEN cv
    ELSE [fp |-> [cv.fp EXCEPT !.data = Extend(@, cv.fp.workData[na]),
                               !.workData = Nil],
          err |-> NoErr]

\* doFormula after runFuncs returned rf
doFormulaAfterFuncs(rf, toks) ==
    IF rf.err # NoErr THEN rf
    ELSE IF Len(toks) = 1
    THEN doSingle(toks[1].name, checkConv(rf.fp, <<toks[1].name>>))
    ELSE doTokens(rf.fp, <<>>, toks, 0)

\* doFormula: evaluates one postfix sequence into fp.data
doFormula(fp, toks) == doFormulaAfterFuncs(runFuncs(fp, toks, 1), toks)

\* the loop of Parse over fp.rpn
RECURSIVE parseFormulas(_, _)
RECURSIVE parseFormulasNext(_, _)
parseFormulasNext(r, k) ==
    IF r.err # NoErr THEN r ELSE parseFormulas(r.fp, k + 1)

\* the loop of Parse with a working cache that is neither made anew for a
\* formula nor dropped after the last one
parseFormulasKeepCache(fp, k) ==
    IF k > Len(fp.rpn) THEN [fp |-> fp, err |-> NoErr]
    ELSE parseFormulasNext(
             doFormula(IF fp.workData = Nil THEN [fp EXCEPT !.workData = EmptyMap] ELSE fp,
                       fp.rpn[k]), k)

parseFormulas(fp, k) ==
    IF k > Len(fp.rpn) THEN [fp |-> [fp EXCEPT !.workData = Nil], err |-> NoErr]
    ELSE parseFormulasNext(doFormula([fp EXCEPT !.workData = EmptyMap], fp.rpn[k]), k)

\* what Parse returns: cols is Nil with an error
parseReturn(r) ==
    [fp |-> r.fp, err |-> r.err, cols |-> IF r.err = NoErr THEN r.fp.data ELSE Nil]

\* Parser.Parse: [fp, err, cols]
ParseCall(fp) == parseReturn(parseFormulas([fp EXCEPT !.data = NewColSet], 1))

(***************************************************************************)
(* Construction: checkParens, init, New and NewMulti.                      *)
(***************************************************************************)
countChar(fml, c) == Cardinality({i \in DOMAIN fml : fml[i] = c})

checkParens(fml) == countChar(fml, "(") = countChar(fml, ")")

\* the loop of init over the formulas: [err, rpn]
RECURSIVE initFormulas(_, _, _)
RECURSIVE initParsed(_, _, _, _)
RECURSIVE initLexed(_, _, _, _)
initParsed(fmls, k, out, p) ==
    IF p.err # NoErr THEN [err |-> p.err, rpn |-> out]
    ELSE initFormulas(fmls, k + 1, Append(out, p.toks))

initLexed(fmls, k, out, fmx) ==
    IF fmx.err # NoErr THEN [err |-> fmx.err, rpn |-> out]
    ELSE initParsed(fmls, k, out, parse(fmx.toks))

initFormulas(fmls, k, out) ==
    IF k > Len(fmls) THEN [err |-> NoErr, rpn |-> out]
    ELSE IF ~checkParens(fmls[k]) THEN [err |-> "Unbalanced parentheses in formula", rpn |-> out]
    ELSE initLexed(fmls, k, out, lex(fmls[k]))

\* the Parser after init: r is the result of the loop over the formulas,
\* t the tables of setCodes (codes is nil when init runs, so setCodes runs)
initParser(formulas, rawdata, refs, r, t) ==
    [err |-> r.err,
     fp |-> [Formulas |-> formulas, RawData |-> rawdata, refLevels |-> refs,
             codes |-> t.codes, facNames |-> t.facNames, rpn |-> r.rpn,
             data |-> Nil, workData |-> Nil]]

\* &Parser{Formulas, RawData} with refLevels of the config, then init()
NewParser(formulas, rawdata, refs) ==
    initParser(formulas, rawdata, refs,
               initFormulas(formulas, 1, <<>>), setCodes(rawdata, refs))

(***************************************************************************)
(* The inputs of the model: formulas, data sources and reference levels.   *)
(***************************************************************************)
X1 == <<"x", "1">>

X2 == <<"x", "2">>

X3 == <<"x", "3">>

X == <<"x">>   \* a variable that no data source holds

One == <<"1">>

Square == <<"s", "q", "u", "a", "r", "e">>

Pbase == <<"p", "b", "a", "s", "e">>

Call(fn, arg) == fn \o <<"(">> \o arg \o <<")">>

Bin(a, op, b) == a \o <<op>> \o b

Paren(a) == <<"(">> \o a \o <<")">>

Spaced(a, op, b) == a \o <<" ", op, " ">> \o b

VarAtoms == {X1, X2, X3}

Operands == VarAtoms \cup {X, One, Call(Square, X1)}

Atoms == Operands \cup {Call(Pbase, X1), Call(Square, X2), Call(<<"f", "f">>, X1)}

Ops == {"+", "*"}

Binary == {Bin(a, op, b) : a \in Operands, op \in Ops, b \in Operands}

\* sums of three variables, in every order and grouping
Sums3 ==
    UNION {{Bin(Bin(a, "+", b), "+", c),
            Bin(Paren(Bin(a, "+", b)), "+", c),
            Bin(a, "+", Paren(Bin(b, "+", c)))} : a \in VarAtoms, b \in VarAtoms, c \in VarAtoms}

\* the two sides of the distributive law
DistLeft(a, b, c) == Bin(Paren(Bin(a, "+", b)), "*", c)

DistRight(a, b, c) == Bin(Bin(a, "*", c), "+", Bin(b, "*", c))

Dists ==
    UNION {{DistLeft(a, b, c), DistRight(a, b, c)} : a \in VarAtoms, b \in VarAtoms, c \in VarAtoms}

\* formulas of the tests, and formulas with several intercepts
Others ==
    {Spaced(Spaced(X1, "+", X2), "+", Bin(X1, "*", X2)),
     <<"(", " ", "(", " ">> \o Bin(X2, "*", X3) \o <<")", ")">>,
     Bin(Paren(Bin(X1, "+", X2)), "*", Paren(Bin(X3, "+", Call(Square, X1)))),
     Spaced(One, "+", One),
     Bin(Bin(One, "+", One), "+", X1),
     Bin(Bin(X1, "+", One), "+", One),
     Bin(Bin(X1, "*", X2), "*", X3),
     Bin(X1, "+", Bin(X2, "*", X3)),
     Bin(X, "+", Bin(X1, "*", X2)),
     <<>>,
     Bin(X1, " ", X2),
     <<"f", "(">>,
     <<"f", ")", "(">>,
     <<"f", "(", ")">>,
     Bin(X1, "-", X2),
     <<"+">>,
     Bin(X1, "+", <<>>)}

SingleFormulas == Atoms \cup Binary \cup Sums3 \cup Dists \cup Others

\* the formulas that NewMulti combines
MultiFormulas == {X1, X2, One, Bin(X1, "+", X2), Bin(X2, "+", X1), Bin(X1, "*", X2), Bin(X2, "+", X2)}

RECURSIVE SeqsOfLen(_, _)
SeqsOfLen(S, n) ==
    IF n = 0 THEN {<<>>}
    ELSE {Append(q, e) : q \in SeqsOfLen(S, n - 1), e \in S}

FormulaLists ==
    {<<f>> : f \in SingleFormulas} \cup UNION {SeqsOfLen(MultiFormulas, n) : n \in 2..MaxFormulas}

\* the formulas of a handle that is given other data sources
HandleFormulas ==
    {X1, X2, Bin(X1, "+", X2), Bin(X1, "*", X2), Bin(X2, "+", X3),
     Spaced(Spaced(X1, "+", X2), "+", Bin(X1, "*", X2)), Bin(One, "+", X2)}

\* every string of at most MaxLen characters of FormulaChars
FormulaChars == {"(", ")", "+", "x", "1"}

CharStrings == UNION {SeqsOfLen(FormulaChars, n) : n \in 0..MaxLen}

\* well-formed infix expressions: operands, joined by operators and put in
\* parentheses, twice over
Nested(S) == S \cup {Bin(a, op, b) : a \in S, op \in Ops, b \in S} \cup {Paren(a) : a \in S}

Infix == Nested(Nested({X1, X2, One, Call(Square, X1)}))

\* a sum or product in parentheses as an operand of a sum or product
Grouped ==
    UNION {{Bin(Paren(Bin(a, o, b)), p, c), Bin(a, p, Paren(Bin(b, o, c)))} :
              a \in {X1, X2}, b \in {X2, One}, c \in {X3, Call(Square, X1)}, o \in Ops, p \in Ops}

\* chains of three operands with one operator
Chains == {Bin(Bin(a, op, b), op, c) : a \in VarAtoms, b \in VarAtoms, c \in VarAtoms, op \in Ops}

\* the characters that Go's unicode.IsSpace holds for white space, as far
\* as a formula of the model has them
Whitespace == {" ", "\t", "\n"}

\* formula a op b with white space w put between its tokens
Separated(a, op, b, w) == a \o <<w, op, w>> \o b

WithWhitespace ==
    {Separated(a, op, b, w) : a \in {X1, One, Call(Square, X1)}, op \in Ops, b \in {X2, One}, w \in Whitespace}
    \cup {<<w>> \o X1 \o <<w>> : w \in Whitespace}

\* formulas with a character that no token has
Unknown == {Bin(X1, "-", X2), <<"x", "1", "$">>, <<"2">>, Bin(X1, "+", <<"2">>)}

SyntaxFormulas ==
    CharStrings \cup Infix \cup Grouped \cup Dists \cup Chains \cup WithWhitespace \cup Unknown

Levels == {"", "0", "1"}

\* x1 is numeric, x2 and x3 are string variables; every variable has MaxObs
\* observations
Sources ==
    {NewSource(<<Float64s([i \in 1..MaxObs |-> i + 1]),
                 Strings(x2),
                 Strings([i \in 1..MaxObs |-> IF i % 2 = 1 THEN "a" ELSE "b"])>>,
               <<"x1", "x2", "x3">>) : x2 \in [1..MaxObs -> Levels]}

\* x2 has the levels of the tests, "0" and "1"
SyntaxSource ==
    NewSource(<<Float64s([i \in 1..MaxObs |-> i + 1]),
                Strings([i \in 1..MaxObs |-> IF i % 2 = 1 THEN "0" ELSE "1"]),
                Strings([i \in 1..MaxObs |-> IF i % 2 = 1 THEN "a" ELSE "b"])>>,
              <<"x1", "x2", "x3">>)

\* Config.RefLevels; EmptyMap is a config without reference levels
RefConfigs ==
    {EmptyMap,
     ("x2" :> "0"),
     ("x2" :> ""),
     ("x2" :> "1") @@ ("x3" :> "a")}

(***************************************************************************)
(* The state machine: a caller constructs a Parser from its inputs with    *)
(* New or NewMulti and calls Parse on it, any number of times.  Between    *)
(* the calls it may ask for the Names and may replace the exported field   *)
(* RawData.                                                                *)
(***************************************************************************)

\* the fields that New and NewMulti leave at their zero values
Unset ==
    /\ codes = Nil
    /\ facNames = Nil
    /\ rpn = <<>>
    /\ data = Nil
    /\ workData = Nil
    /\ rawNames = Nil
    /\ names = Nil
    /\ calls = 0
    /\ pc = "start"
    /\ ret = [op |-> "none", err |-> NoErr, cols |-> Nil]

Init ==
    /\ Formulas \in FormulaLists
    /\ RawData \in Sources
    /\ refLevels \in RefConfigs
    /\ Unset

\* the assignments of New and NewMulti, r being what NewParser returned
Constructed(op, r) ==
    /\ ret' = [op |-> op, err |-> r.err, cols |-> Nil]
    /\ IF r.err # NoErr
       THEN /\ pc' = "failed"
            /\ UNCHANGED <<codes, facNames, rpn>>
       ELSE /\ pc' = "compiled"
            /\ codes' = r.fp.codes
            /\ facNames' = r.fp.facNames
            /\ rpn' = r.fp.rpn
    /\ UNCHANGED <<Formulas, RawData, refLevels, data, workData, rawNames, names, calls>>

Construct(op) == Constructed(op, NewParser(Formulas, RawData, refLevels))

New ==
    /\ pc = "start"
    /\ Len(Formulas) = 1
    /\ Construct("New")

NewMulti ==
    /\ pc = "start"
    /\ Construct("NewMulti")

\* the Parser that the variables hold
Self ==
    [Formulas |-> Formulas, RawData |-> RawData, refLevels |-> refLevels,
     codes |-> codes, facNames |-> facNames, rpn |-> rpn,
     data |-> data, workData |-> workData]

\* the assignments of Parse, r being what ParseCall returned
ParseDone(r) ==
    /\ ret' = [op |-> "Parse", err |-> r.err, cols |-> r.cols]
    /\ pc' = IF IsPanic(r.err) THEN "crashed" ELSE "parsed"
    /\ data' = r.fp.data
    /\ workData' = r.fp.workData
    /\ rawNames' = Names(RawData)

Parse ==
    /\ pc \in {"compiled", "parsed"}
    /\ calls < MaxCalls
    /\ calls' = calls + 1
    /\ ParseDone(ParseCall(Self))
    /\ UNCHANGED <<Formulas, RawData, refLevels, codes, facNames, rpn, names>>

\* Parser.Names: returns the field names
ParserNames ==
    /\ pc \in {"compiled", "parsed"}
    /\ ret' = [op |-> "Names", err |-> NoErr, cols |-> names]
    /\ UNCHANGED <<Formulas, RawData, refLevels, codes, facNames, rpn, data, workData,
                   rawNames, names, calls, pc>>

\* the caller assigns another data source to the exported field RawData
SetRawData ==
    /\ pc \in {"compiled", "parsed"}
    /\ \E src \in Sources :
          /\ src # RawData
          /\ RawData' = src
    /\ ret' = [op |-> "SetRawData", err |-> NoErr, cols |-> Nil]
    /\ UNCHANGED <<Formulas, refLevels, codes, facNames, rpn, data, workData,
                   rawNames, names, calls, pc>>

Next == New \/ NewMulti \/ Parse

Spec == Init /\ [][Next]_vars

\* a handle that is also queried for its names and given other data sources
InitHandle ==
    /\ Formulas \in {<<f>> : f \in HandleFormulas}
    /\ RawData \in Sources
    /\ refLevels \in {EmptyMap, ("x2" :> "0")}
    /\ Unset

NextHandle == New \/ NewMulti \/ Parse \/ ParserNames \/ SetRawData

SpecHandle == InitHandle /\ [][NextHandle]_vars

\* the formulas of SyntaxFormulas, compiled and evaluated on one data source
InitSyntax ==
    /\ Formulas \in {<<f>> : f \in SyntaxFormulas}
    /\ RawData = SyntaxSource
    /\ refLevels = EmptyMap
    /\ Unset

SpecSyntax == InitSyntax /\ [][Next]_vars

(***************************************************************************)
(* Definitions shared by the properties below.                             *)
(***************************************************************************)

\* Parse has returned a ColSet and no error
ParsedOk == ret.op = "Parse" /\ ret.err = NoErr

\* New or NewMulti on fmls with the data source and the reference levels of
\* the state, followed by Parse: [err, cols]
Evaluate(fmls) ==
    LET p == NewParser(fmls, RawData, refLevels) IN
    IF p.err # NoErr THEN [err |-> p.err, cols |-> Nil]
    ELSE LET r == ParseCall(p.fp) IN [err |-> r.err, cols |-> r.cols]

\* the columns of a ColSet as a set of (name, values) pairs
NamedColumns(cs) == {<<cs.Names[i], cs.Data[i]>> : i \in DOMAIN cs.Names}

\* the observations of variable na in the data source of the state
Observed(na) == Get(RawData, na).v

NObs == Len(Get(RawData, Names(RawData)[1]).v)

OnesColSet == [Names |-> <<"icept">>, Data |-> <<[i \in 1..NObs |-> 1]>>]

VarName(a) == joinChars(a, 1, Len(a) + 1)

(***************************************************************************)
(* C1.  Whenever Parse succeeds, the returned ColSet holds no two columns  *)
(* with the same name, also for a term repeated inside one formula.        *)
(***************************************************************************)
\* C1: a ColSet returned by Parse holds no name twice
C1_NoDuplicateNames ==
    ParsedOk =>
        \A i, j \in DOMAIN ret.cols.Names :
            i # j => ret.cols.Names[i] # ret.cols.Names[j]

(***************************************************************************)
(* C2.  The result of Parse over formulas f1..fn is accumulated formula by *)
(* formula in list order: the columns that formula k produces on its own   *)
(* are appended in their order, except those whose name an earlier formula *)
(* contributed.  ["x1", "x1"] yields x1 once and ["x1", "x1+x2"] yields x1 *)
(* followed by the indicator columns of x2.                                *)
(***************************************************************************)
\* the positions of the columns of cs whose name acc does not hold
NewPositions(acc, cs) == {j \in DOMAIN cs.Names : cs.Names[j] \notin Range(acc.Names)}

\* the k-th smallest element of a set of positions
NthOf(P, k) == CHOOSE j \in P : Cardinality({i \in P : i < j}) = k - 1

Accumulated(acc, cs) ==
    LET P == NewPositions(acc, cs) IN
    [Names |-> acc.Names \o [k \in 1..Cardinality(P) |-> cs.Names[NthOf(P, k)]],
     Data |-> acc.Data \o [k \in 1..Cardinality(P) |-> cs.Data[NthOf(P, k)]]]

RECURSIVE AccumulatedUpTo(_, _)
AccumulatedUpTo(fmls, n) ==
    IF n = 0 THEN NewColSet
    ELSE Accumulated(AccumulatedUpTo(fmls, n - 1), Evaluate(<<fmls[n]>>).cols)

\* C2: the result is the accumulation, formula by formula, of the single results
C2_MultiAccumulates ==
    ParsedOk =>
        /\ \A k \in DOMAIN Formulas : Evaluate(<<Formulas[k]>>).err = NoErr
        /\ ret.cols = AccumulatedUpTo(Formulas, Len(Formulas))
        /\ Formulas = <<X1, X1>> =>
               ret.cols = [Names |-> <<"x1">>, Data |-> <<Observed("x1")>>]
        /\ Formulas = <<X1, Bin(X1, "+", X2)>> =>
               /\ ret.cols.Names = <<"x1">> \o Evaluate(<<X2>>).cols.Names
               /\ ret.cols.Data = <<Observed("x1")>> \o Evaluate(<<X2>>).cols.Data

C2_Witness ==
    /\ ParsedOk
    /\ Formulas = <<X1, Bin(X1, "+", X2)>>
    /\ Len(ret.cols.Names) >= 2

(***************************************************************************)
(* C3.  The result of A*B has one column for every pair (column of A,      *)
(* column of B), left-major and right-minor, named leftName:rightName,     *)
(* with the product of the two values at every observation.  With x2 of    *)
(* levels "0" and "1" and reference level "0", "x1 + x2 + x1*x2" yields    *)
(* x1, x2[1], x1:x2[1] in that order.                                      *)
(***************************************************************************)
\* the column set that an operand denotes
OperandCols(a) == IF a = One THEN OnesColSet ELSE Evaluate(<<a>>).cols

IsProductOf(cs, A, B) ==
    /\ Len(cs.Names) = Len(A.Names) * Len(B.Names)
    /\ Len(cs.Data) = Len(cs.Names)
    /\ \A i \in DOMAIN A.Names, j \in DOMAIN B.Names :
           LET k == (i - 1) * Len(B.Names) + j IN
           /\ cs.Names[k] = A.Names[i] \o ":" \o B.Names[j]
           /\ cs.Data[k] = [o \in 1..NObs |-> A.Data[i][o] * B.Data[j][o]]

TestFormula == Spaced(Spaced(X1, "+", X2), "+", Bin(X1, "*", X2))

\* C3: a product holds the pairwise products of the columns of its operands
C3_Interaction ==
    ParsedOk =>
        /\ \A a \in Operands, b \in Operands :
               Formulas = <<Bin(a, "*", b)>> =>
                   IsProductOf(ret.cols, OperandCols(a), OperandCols(b))
        /\ \A a \in VarAtoms, b \in VarAtoms, c \in VarAtoms :
               Formulas = <<DistLeft(a, b, c)>> =>
                   IsProductOf(ret.cols, Evaluate(<<Bin(a, "+", b)>>).cols, OperandCols(c))
        /\ (/\ Formulas = <<TestFormula>>
            /\ "x2" \in DOMAIN refLevels
            /\ refLevels["x2"] = "0"
            /\ Range(Observed("x2")) = {"0", "1"}) =>
               /\ ret.cols.Names = <<"x1", "x2[1]", "x1:x2[1]">>
               /\ ret.cols.Data =
                      <<Observed("x1"),
                        [o \in 1..NObs |-> IF Observed("x2")[o] = "1" THEN 1 ELSE 0],
                        [o \in 1..NObs |-> IF Observed("x2")[o] = "1" THEN Observed("x1")[o] ELSE 0]>>

C3_Witness ==
    /\ ParsedOk
    /\ Formulas = <<Bin(X2, "*", X3)>>
    /\ Len(ret.cols.Names) = 4

(***************************************************************************)
(* C4.  Interaction distributes over union: for variables A, B, C the      *)
(* formula "(A+B)*C" evaluates to the same ColSet (names, order, values)   *)
(* as "A*C+B*C".                                                           *)
(***************************************************************************)
\* C4: (a+b)*c and a*c+b*c evaluate to the same ColSet
C4_Distributes ==
    \A a \in VarAtoms, b \in VarAtoms, c \in VarAtoms :
        (ret.op = "Parse" /\ Formulas = <<DistLeft(a, b, c)>>) =>
            /\ ret.err = NoErr
            /\ Evaluate(<<DistRight(a, b, c)>>) = [err |-> NoErr, cols |-> ret.cols]

C4_Witness ==
    /\ ParsedOk
    /\ Formulas = <<DistLeft(X1, X2, X3)>>
    /\ Len(ret.cols.Names) >= 4

(***************************************************************************)
(* C5.  Union is associative and commutative on the set of column names:   *)
(* sums of the same operands in another order or grouping evaluate to      *)
(* ColSets with the same set of names, each name with the same values.     *)
(***************************************************************************)
SumForms(a, b, c) ==
    {Bin(Bin(a, "+", b), "+", c),
     Bin(Paren(Bin(a, "+", b)), "+", c),
     Bin(a, "+", Paren(Bin(b, "+", c)))}

Rearranged(a, b, c) ==
    SumForms(a, b, c) \cup SumForms(a, c, b) \cup SumForms(b, a, c)
        \cup SumForms(b, c, a) \cup SumForms(c, a, b) \cup SumForms(c, b, a)

SameNamedColumns(f) ==
    /\ Evaluate(<<f>>).err = NoErr
    /\ NamedColumns(Evaluate(<<f>>).cols) = NamedColumns(ret.cols)

\* C5: reordered and regrouped sums hold the same named columns
C5_UnionCommutes ==
    ParsedOk =>
        /\ \A a \in Operands, b \in Operands :
               Formulas = <<Bin(a, "+", b)>> => SameNamedColumns(Bin(b, "+", a))
        /\ \A a \in VarAtoms, b \in VarAtoms, c \in VarAtoms :
               Formulas[1] \in SumForms(a, b, c) /\ Len(Formulas) = 1 =>
                   \A g \in Rearranged(a, b, c) : SameNamedColumns(g)

C5_Witness ==
    /\ ParsedOk
    /\ Formulas = <<Bin(X2, "+", Paren(Bin(X3, "+", X1)))>>
    /\ Len(ret.cols.Names) >= 4

(***************************************************************************)
(* C6.  "1 + 1" evaluates successfully to exactly one column named icept,  *)
(* all ones, one entry per observation.                                    *)
(***************************************************************************)
\* C6: "1 + 1" evaluates to the single column icept of ones
C6_InterceptIdempotent ==
    (ret.op = "Parse" /\ Formulas \in {<<Spaced(One, "+", One)>>, <<Bin(One, "+", One)>>}) =>
        /\ ret.err = NoErr
        /\ ret.cols = OnesColSet

(***************************************************************************)
(* C7.  A formula whose postfix sequence has length one yields exactly the *)
(* ColSet of its term: the raw numeric column, the indicator columns of a  *)
(* string variable, the output of the transformation, or the all-ones      *)
(* icept column.                                                           *)
(***************************************************************************)
\* the indicator columns of na are those of its codes, in the order of the codes
IndicatorCols(na) ==
    LET cds == codes[na]
        lev == [k \in 1..Cardinality(DOMAIN cds) |-> CHOOSE x \in DOMAIN cds : cds[x] = k - 1]
    IN [Names |-> [k \in DOMAIN lev |-> na \o "[" \o lev[k] \o "]"],
        Data |-> [k \in DOMAIN lev |->
                     [o \in 1..NObs |-> IF Observed(na)[o] = lev[k] THEN 1 ELSE 0]]]

\* the ColSet that the single term tok denotes
TermCols(tok) ==
    CASE tok.symbol = icept -> OnesColSet
      [] tok.symbol = funct -> callFunc(tok.funcn, tok.name, Observed(tok.arg))
      [] tok.symbol = vname /\ Get(RawData, tok.name).kind = "float64" ->
             [Names |-> <<tok.name>>, Data |-> <<Observed(tok.name)>>]
      [] OTHER -> IndicatorCols(tok.name)

\* a single term that names data the source holds
IsSingleTerm(tok) ==
    \/ tok.symbol = icept
    \/ tok.symbol = vname /\ Get(RawData, tok.name) # Nil
    \/ /\ tok.symbol = funct
       /\ tok.funcn \in funcs
       /\ Get(RawData, tok.arg) # Nil
       /\ Get(RawData, tok.arg).kind = "float64"

\* C7: a formula of one term evaluates to the ColSet of that term
C7_SingleTerm ==
    (ret.op = "Parse" /\ Len(rpn) = 1 /\ Len(rpn[1]) = 1 /\ IsSingleTerm(rpn[1][1])) =>
        /\ ret.err = NoErr
        /\ ret.cols = TermCols(rpn[1][1])

\* C7 without the intercept: a single variable or function call yields the
\* ColSet of that term (used to see what part of C7 the code satisfies)
C7_SingleTermNoIntercept ==
    (ret.op = "Parse" /\ Len(rpn) = 1 /\ Len(rpn[1]) = 1 /\ IsSingleTerm(rpn[1][1])
        /\ rpn[1][1].symbol # icept) =>
        /\ ret.err = NoErr
        /\ ret.cols = TermCols(rpn[1][1])

(***************************************************************************)
(* C8.  A string variable v with a configured reference level r converts   *)
(* to one indicator column per distinct observed value other than r, in    *)
(* first-seen order with codes 0, 1, 2, ..., named v[value], with 1        *)
(* exactly at the observations equal to that value; a variable with no     *)
(* value other than r converts to no column.                               *)
(***************************************************************************)
FirstSeen(s, x) == CHOOSE i \in DOMAIN s : s[i] = x /\ \A j \in DOMAIN s : s[j] = x => i <= j

\* the k-th value of s other than r in first-seen order
LevelAt(s, r, k) ==
    CHOOSE x \in Range(s) \ {r} :
        Cardinality({y \in Range(s) \ {r} : FirstSeen(s, y) < FirstSeen(s, x)}) = k - 1

IndicatorsOf(na, s, r) ==
    [Names |-> [k \in 1..Cardinality(Range(s) \ {r}) |-> na \o "[" \o LevelAt(s, r, k) \o "]"],
     Data |-> [k \in 1..Cardinality(Range(s) \ {r}) |->
                  [o \in DOMAIN s |-> IF s[o] = LevelAt(s, r, k) THEN 1 ELSE 0]]]

StringVars == {X2, X3}

\* C8: with a reference level, one indicator column per other value, first seen first
C8_ReferenceLevel ==
    \A v \in StringVars :
        (ret.op = "Parse" /\ Formulas = <<v>> /\ VarName(v) \in DOMAIN refLevels) =>
            /\ ret.err = NoErr
            /\ ret.cols = IndicatorsOf(VarName(v), Observed(VarName(v)), refLevels[VarName(v)])
            /\ DOMAIN codes[VarName(v)] = Range(Observed(VarName(v))) \ {refLevels[VarName(v)]}
            /\ \A k \in 1..Cardinality(DOMAIN codes[VarName(v)]) :
                   codes[VarName(v)][LevelAt(Observed(VarName(v)), refLevels[VarName(v)], k)] = k - 1
            /\ \A o \in 1..NObs :
                   Observed(VarName(v))[o] = refLevels[VarName(v)] =>
                       \A k \in DOMAIN ret.cols.Data : ret.cols.Data[k][o] = 0

C8_Witness ==
    /\ ParsedOk
    /\ Formulas = <<X2>>
    /\ "x2" \in DOMAIN refLevels
    /\ refLevels["x2"] \in Range(Observed("x2"))
    /\ Len(ret.cols.Names) >= 1

(***************************************************************************)
(* C9.  Without a configured reference level no observed value of a string *)
(* variable is excluded: every distinct observed value, the empty string   *)
(* included, has a code and an indicator column of its own.                *)
(***************************************************************************)
\* C9: without a reference level every observed value has its column
C9_NoReferenceNoExclusion ==
    \A v \in StringVars :
        (ret.op = "Parse" /\ Formulas = <<v>> /\ VarName(v) \notin DOMAIN refLevels) =>
            /\ ret.err = NoErr
            /\ DOMAIN codes[VarName(v)] = Range(Observed(VarName(v)))
            /\ Len(ret.cols.Names) = Cardinality(Range(Observed(VarName(v))))
            /\ \A x \in Range(Observed(VarName(v))) :
                   \E k \in DOMAIN ret.cols.Names :
                       /\ ret.cols.Names[k] = VarName(v) \o "[" \o x \o "]"
                       /\ ret.cols.Data[k] =
                              [o \in 1..NObs |-> IF Observed(VarName(v))[o] = x THEN 1 ELSE 0]

(***************************************************************************)
(* C10.  When a formula names a variable that the data source does not     *)
(* hold, alone or as an operand of + or *, Parse returns a variable-not-   *)
(* found error and no ColSet, and does not crash.                          *)
(***************************************************************************)
\* some formula holds a variable token that RawData.Get answers with nil,
\* and no function token (whose errors come first)
NamesMissingVariable ==
    /\ \E k \in DOMAIN rpn : \E i \in DOMAIN rpn[k] :
           rpn[k][i].symbol = vname /\ Get(RawData, rpn[k][i].name) = Nil
    /\ \A k \in DOMAIN rpn : \A i \in DOMAIN rpn[k] : rpn[k][i].symbol # funct

\* C10: a missing variable makes Parse return the not-found error, without a crash
C10_MissingVariableError ==
    (ret.op = "Parse" /\ NamesMissingVariable) =>
        /\ pc # "crashed"
        /\ ret.err = ErrNotFound
        /\ ret.cols = Nil

(***************************************************************************)
(* C11.  A function call whose argument variable holds strings is answered *)
(* by Parse with an error value and no ColSet; the evaluation does not     *)
(* crash.                                                                  *)
(***************************************************************************)

\* tok calls a known function on a string variable of the data source
CallsOnStrings(tok) ==
    /\ tok.symbol = funct
    /\ tok.funcn \in funcs
    /\ Get(RawData, tok.arg).kind = "string"

\* C11: after Parse of one formula that calls a known function on a string
\* variable, the caller holds an error value and no ColSet, and no panic
\* was raised
C11_FunctionTypeMismatch ==
    (/\ ret.op = "Parse"
     /\ Len(rpn) = 1
     /\ \A i \in DOMAIN rpn[1] : rpn[1][i].symbol = funct => rpn[1][i].funcn \in funcs
     /\ \E i \in DOMAIN rpn[1] : CallsOnStrings(rpn[1][i]))
    => (/\ pc = "parsed"
        /\ ret.err # NoErr
        /\ ~IsPanic(ret.err)
        /\ ret.cols = Nil)

(***************************************************************************)
(* C12.  A formula whose parentheses are unbalanced or mismatched is       *)
(* rejected by New and by NewMulti with an error.                          *)
(***************************************************************************)

\* every ")" of fml closes an earlier "(", and every "(" is closed
Balanced(fml) ==
    /\ countChar(fml, "(") = countChar(fml, ")")
    /\ \A k \in 1..Len(fml) :
          countChar(SubSeq(fml, 1, k), ")") <= countChar(SubSeq(fml, 1, k), "(")

CallsOfNoIdentifier == {n \o <<"(", t, ")">> : n \in {X, X1}, t \in {"+", "1"}}

\* C13: New on an identifier followed by "(", a token that is no identifier
\* and ")" fails with the error of a malformed function call; and every
\* function token of a compiled formula carries a function name, an
\* argument name and the name funcn(arg)
C13_MalformedCall ==
    /\ (pc # "start" /\ Len(Formulas) = 1 /\ Formulas[1] \in CallsOfNoIdentifier)
       => (pc = "failed" /\ ret.err = "Malformed function call")
    /\ \A k \in DOMAIN rpn : \A i \in DOMAIN rpn[k] :
          rpn[k][i].symbol = funct
          => (/\ rpn[k][i].funcn # ""
              /\ rpn[k][i].arg # ""
              /\ rpn[k][i].name = rpn[k][i].funcn \o "(" \o rpn[k][i].arg \o ")")

(***************************************************************************)
(* C14.  After a successful New or NewMulti, Names returns the names of    *)
(* the raw variables that the compiled formulas refer to.                  *)
(***************************************************************************)

\* the variables that a postfix token sequence refers to
ReferredBy(toks) ==
    {toks[i].name : i \in {j \in DOMAIN toks : toks[j].symbol = vname}}
    \cup {toks[i].arg : i \in {j \in DOMAIN toks : toks[j].symbol = funct}}

Referred == UNION {ReferredBy(rpn[k]) : k \in DOMAIN rpn}

\* C14: what Names has returned on a compiled handle is a list of exactly
\* the variable names that the formulas refer to
C14_NamesReferred ==
    ret.op = "Names" => (ret.cols # Nil /\ Range(ret.cols) = Referred)

(***************************************************************************)
(* C15.  Parse is repeatable: called again on the same handle, with the    *)
(* data source and the configuration unchanged, it returns what the call   *)
(* before returned.                                                        *)
(***************************************************************************)

\* C15: a Parse call that follows a Parse call on the handle returns the
\* same error and an equal ColSet
C15_Repeatable ==
    [][(ret.op = "Parse" /\ ret'.op = "Parse")
       => (ret'.err = ret.err /\ ret'.cols = ret.cols)]_vars

\* a second Parse has returned columns of an intercept and of a coded variable
C15_Witness ==
    /\ calls >= 2
    /\ ParsedOk
    /\ Formulas = <<Bin(One, "+", X2)>>
    /\ Len(ret.cols.Names) > 1
    /\ "icept" \in Range(ret.cols.Names)

(***************************************************************************)
(* C16.  A handle whose RawData was replaced by another data source        *)
(* evaluates as a handle compiled against that data source does, also      *)
(* when a string variable has other levels in the new data source.         *)
(***************************************************************************)

\* C16: what Parse has returned equals what New and Parse return for the
\* same formulas, reference levels and the data source that the handle
\* holds now
C16_AsCompiledAfresh ==
    ret.op = "Parse"
    => (ret.err = Evaluate(Formulas).err /\ ret.cols = Evaluate(Formulas).cols)

(***************************************************************************)
(* C17.  For a well-formed infix token sequence, parse gives a postfix     *)
(* sequence without parentheses that holds every operand and operator of   *)
(* the input once, the operands in their order, and that evaluates on a    *)
(* stack to the value of the infix expression, "*" binding tighter than    *)
(* "+" and parentheses overriding.  The value of an expression is its list *)
(* of terms, a term being the list of the operands multiplied in it.       *)
(***************************************************************************)
IsOperand(tok) == tok.symbol \in {vname, funct, icept}

IsParen(tok) == tok.symbol \in {leftp, rightp}

ValueOf(tok) == <<<<tok>>>>

Sum(A, B) == A \o B

\* every term of A with every term of B, the terms of A varying slowest
Product(A, B) ==
    [k \in 1..(Len(A) * Len(B)) |-> A[((k - 1) \div Len(B)) + 1] \o B[((k - 1) % Len(B)) + 1]]

Apply(op, A, B) == IF op.symbol = plus THEN Sum(A, B) ELSE Product(A, B)

NoValue == [ok |-> FALSE, val |-> <<>>, pos |-> 0]

\* the grammar  expr = term {+ term},  term = factor {* factor},
\* factor = operand | ( expr ):  [ok, val, pos], pos being the position
\* after what was read
RECURSIVE InfixExpr(_, _)
RECURSIVE InfixExprRest(_, _, _)
RECURSIVE InfixTerm(_, _)
RECURSIVE InfixTermRest(_, _, _)
RECURSIVE InfixFactor(_, _)
InfixFactor(toks, i) ==
    IF i > Len(toks) THEN NoValue
    ELSE IF IsOperand(toks[i]) THEN [ok |-> TRUE, val |-> ValueOf(toks[i]), pos |-> i + 1]
    ELSE IF toks[i].symbol = leftp
    THEN LET e == InfixExpr(toks, i + 1) IN
         IF e.ok /\ e.pos <= Len(toks) /\ toks[e.pos].symbol = rightp
         THEN [ok |-> TRUE, val |-> e.val, pos |-> e.pos + 1]
         ELSE NoValue
    ELSE NoValue

InfixTermRest(toks, acc, i) ==
    IF i <= Len(toks) /\ toks[i].symbol = times
    THEN LET f == InfixFactor(toks, i + 1) IN
         IF f.ok THEN InfixTermRest(toks, Product(acc, f.val), f.pos) ELSE NoValue
    ELSE [ok |-> TRUE, val |-> acc, pos |-> i]

InfixTerm(toks, i) ==
    LET f == InfixFactor(toks, i) IN
    IF f.ok THEN InfixTermRest(toks, f.val, f.pos) ELSE NoValue

InfixExprRest(toks, acc, i) ==
    IF i <= Len(toks) /\ toks[i].symbol = plus
    THEN LET t == InfixTerm(toks, i + 1) IN
         IF t.ok THEN InfixExprRest(toks, Sum(acc, t.val), t.pos) ELSE NoValue
    ELSE [ok |-> TRUE, val |-> acc, pos |-> i]

InfixExpr(toks, i) ==
    LET t == InfixTerm(toks, i) IN
    IF t.ok THEN InfixExprRest(toks, t.val, t.pos) ELSE NoValue

WellFormed(toks) == InfixExpr(toks, 1).ok /\ InfixExpr(toks, 1).pos = Len(toks) + 1

InfixValue(toks) == InfixExpr(toks, 1).val

\* the evaluation of a postfix sequence on a stack of values; <<>> when the
\* sequence is no postfix expression
RECURSIVE PostfixFrom(_, _, _)
PostfixFrom(toks, i, stack) ==
    IF i > Len(toks) THEN (IF Len(stack) = 1 THEN stack[1] ELSE <<>>)
    ELSE IF IsOperand(toks[i]) THEN PostfixFrom(toks, i + 1, Append(stack, ValueOf(toks[i])))
    ELSE IF isOperator(toks[i]) /\ Len(stack) >= 2
    THEN PostfixFrom(toks, i + 1,
                     Append(SubSeq(stack, 1, Len(stack) - 2),
                            Apply(toks[i], stack[Len(stack) - 1], stack[Len(stack)])))
    ELSE <<>>

PostfixValue(toks) == PostfixFrom(toks, 1, <<>>)

CountOf(toks, sym) == Cardinality({i \in DOMAIN toks : toks[i].symbol = sym})

\* C17 for the infix tokens inp and the postfix tokens out
IsPostfixOf(out, inp) ==
    /\ \A i \in DOMAIN out : ~IsParen(out[i])
    /\ SelectSeq(out, IsOperand) = SelectSeq(inp, IsOperand)
    /\ CountOf(out, plus) = CountOf(inp, plus)
    /\ CountOf(out, times) = CountOf(inp, times)
    /\ PostfixValue(out) = InfixValue(inp)

\* C17: once New has returned for a formula whose tokens are a well-formed
\* infix expression, parse of the tokens gives no error and a postfix
\* sequence that has no parenthesis, has the operands of the tokens in
\* their order and each operator once, and evaluates to the value of the
\* infix expression; it is the postfix sequence of the compiled handle
C17_PostfixOfInfix ==
    (/\ pc # "start"
     /\ Len(Formulas) = 1
     /\ lex(Formulas[1]).err = NoErr
     /\ WellFormed(lex(Formulas[1]).toks))
    => (/\ parse(lex(Formulas[1]).toks).err = NoErr
        /\ IsPostfixOf(parse(lex(Formulas[1]).toks).toks, lex(Formulas[1]).toks)
        /\ pc # "failed" => rpn = <<parse(lex(Formulas[1]).toks).toks>>)

\* "(x1+x2)*x3" is compiled to  x1 x2 + x3 *
C17_Witness ==
    /\ pc = "compiled"
    /\ Formulas = <<Bin(Paren(Bin(X1, "+", X2)), "*", X3)>>
    /\ [i \in DOMAIN rpn[1] |-> rpn[1][i].symbol] = <<vname, vname, plus, vname, times>>
    /\ WellFormed(lex(Formulas[1]).toks)

(***************************************************************************)
(* C18.  Chained operators of equal precedence are grouped left to right:  *)
(* the postfix sequence of "a+b+c" is  a b + c +  and that of "a*b*c" is   *)
(* a b * c *.                                                              *)
(***************************************************************************)
SymbolOf(op) == IF op = "+" THEN plus ELSE times

\* the postfix sequence that applies op to a and b, and then to the result
\* and c
LeftToRight(a, op, b, c) ==
    <<VarTok(VarName(a)), VarTok(VarName(b)), Tok(SymbolOf(op)),
      VarTok(VarName(c)), Tok(SymbolOf(op))>>

\* C18: the postfix sequence of a compiled chain  a op b op c  of three
\* variables is  a b op c op
C18_LeftToRight ==
    \A a \in VarAtoms, b \in VarAtoms, c \in VarAtoms, op \in Ops :
       (pc # "start" /\ Formulas = <<Bin(Bin(a, op, b), op, c)>>)
       => (pc # "failed" /\ rpn = <<LeftToRight(a, op, b, c)>>)

(***************************************************************************)
(* C19.  The lexer skips white space: space, tab or newline characters     *)
(* between the tokens of a formula change neither the tokens nor raise a   *)
(* lexical error; a lexical error is raised only for a character that is   *)
(* neither white space nor "(", ")", "+", "*", "1" nor part of an          *)
(* identifier.                                                             *)
(***************************************************************************)

\* C19: once New has returned for a formula  a op b  with a white space
\* character on both sides of op, it has returned no error and the postfix
\* sequence of the handle is that of  a op b  without them
C19_SkipsWhitespace ==
    \A a \in {X1, One, Call(Square, X1)}, op \in Ops, b \in {X2, One}, w \in Whitespace :
       (pc # "start" /\ Formulas = <<Separated(a, op, b, w)>>)
       => (/\ lex(Formulas[1]) = lex(Bin(a, op, b))
           /\ pc # "failed"
           /\ rpn = <<parse(lex(Bin(a, op, b)).toks).toks>>)
====
